---- MODULE Spec2Model ----
(***************************************************************************)
(* yt-dlx launcher: the Dispatcher (logic.py: find_bundled_file,           *)
(* run_executable, main) and the Launch Shim (main.py).                    *)
(*                                                                         *)
(* A path is a string and os.path.join puts a separator between its       *)
(* arguments.  A byte stream or a text is a sequence of one-character      *)
(* strings.  A path the code found absent (None, tested by truthiness) is  *)
(* the empty string.                                                       *)
(***************************************************************************)
EXTENDS Integers, Sequences, FiniteSets, TLC

VARIABLES
    platform,       \* sys.platform
    frozen,         \* getattr(sys, "frozen", False)
    fs,             \* the set of paths for which os.path.exists is true
    argv,           \* sys.argv[1:]
    pc,             \* position of the parent process
    args,           \* argparse namespace: [tor, ytprobe], each {} (None) or {list}
    tor_path, tor_data_dir, ytprobe_path,
    venv_python,    \* main.py: result of find_venv_python()
    executable_name, executable_path,
    command,        \* argument vector handed to subprocess.run
    child,          \* "none" | "running" | "exited" | "reaped"
    spawned,        \* number of child processes created so far
    child_status,   \* how the child ended: <<"exit", code>> or <<"signal", n>>
    child_stdout, child_stderr,     \* bytes the child wrote to its pipes
    returncode,     \* result.returncode
    result_stdout, result_stderr,   \* result.stdout / result.stderr (text)
    parent_stdout, parent_stderr,   \* what the parent wrote
    paths_info,     \* the report dictionary printed by main()
    spawn_fault,    \* exception raised by the spawn, "" if none
    exit_code,      \* the parent's exit status, -1 while it runs
    run_args,       \* the args parameter of run_executable
    relative_bundle_path, located   \* one call of find_bundled_file and its result

vars == <<platform, frozen, fs, argv, pc, args, tor_path, tor_data_dir,
          ytprobe_path, venv_python, executable_name, executable_path, command,
          child, spawned, child_status, child_stdout, child_stderr, returncode,
          result_stdout, result_stderr, parent_stdout, parent_stderr,
          paths_info, spawn_fault, exit_code, run_args, relative_bundle_path,
          located>>

envVars == <<platform, frozen, fs, argv>>
pathVars == <<tor_path, tor_data_dir, ytprobe_path, venv_python>>
childVars == <<child, spawned, child_status, child_stdout, child_stderr>>
resultVars == <<returncode, result_stdout, result_stderr>>
outVars == <<parent_stdout, parent_stderr, paths_info>>
locVars == <<relative_bundle_path, located>>

\* ---------------------------------------------------------------- bounds
MaxArgs == 2

ArgTokens == {"--tor", "--ytprobe", "-v"}

RECURSIVE SeqsUpTo(_, _)
SeqsUpTo(S, n) ==
    IF n = 0 THEN {<<>>}
    ELSE LET shorter == SeqsUpTo(S, n - 1)
         IN shorter \cup {Append(s, x) : s \in shorter, x \in S}

ArgVectors == SeqsUpTo(ArgTokens, MaxArgs)

\* exit codes a child may return, and signals that may kill it
ExitCodes == {0, 1, 2, 126, 127}
Signals == {9}

\* ----------------------------------------------------------------- paths
None == ""

\* os.path.join
join(a, b) == a \o "/" \o b

Platforms == {"win32", "linux"}

\* logic.py:72-79, the relative bundle paths of the platform
TorRel(p) ==
    IF p = "win32" THEN "context/windows/TorBrowser/tor/tor.exe"
    ELSE "context/linux/TorBrowser/tor/tor"

DataRel(p) ==
    IF p = "win32" THEN "context/windows/TorBrowser/data"
    ELSE "context/linux/TorBrowser/data"

YtprobeRel(p) ==
    IF p = "win32" THEN "context/windows/ytprobe.exe"
    ELSE "context/linux/ytprobe.bin"

\* logic.py:105-106
TorrcRelWin == "context/windows/TorBrowser/data/torrc"
TorrcRelLinux == "context/linux/TorBrowser/data/torrc"

TorrcRel(p) == IF p = "win32" THEN TorrcRelWin ELSE TorrcRelLinux

\* sys._MEIPASS, dirname(abspath(__file__)), and the working directory
MeiPass == "_MEIPASS"
ScriptDir == "script_dir"
UpThree == join(ScriptDir, "../../..")
Cwd == "cwd"

exists(path) == path \in fs

\* find_bundled_file with the development fallback consulted in a bundle too
find_bundled_file_fallback_always(rel) ==
    LET base_path == IF frozen THEN MeiPass ELSE ScriptDir
        file_path == join(base_path, rel)
        alt_path == join(UpThree, rel)
    IN IF ~exists(file_path)
       THEN IF exists(alt_path) THEN alt_path ELSE None
       ELSE file_path

\* logic.py:9-24
find_bundled_file(rel) ==
    LET base_path == IF frozen THEN MeiPass ELSE ScriptDir
        file_path == join(base_path, rel)
        alt_path == join(UpThree, rel)
    IN IF ~frozen /\ ~exists(file_path)
       THEN IF exists(alt_path) THEN alt_path ELSE None
       ELSE IF exists(file_path) THEN file_path ELSE None

\* main.py:6-18
find_venv_python ==
    LET base_path == IF frozen THEN MeiPass ELSE ScriptDir
        venv_python_path ==
            IF platform = "win32"
            THEN join(base_path, "context/windows/venv/python.exe")
            ELSE join(base_path, "context/linux/venv/bin/python")
    IN IF exists(venv_python_path) THEN venv_python_path ELSE None

\* main.py:21-22
app_script_path == join(IF frozen THEN MeiPass ELSE ScriptDir, "logic.py")

\* ------------------------------------------------------------------ text
\* A byte the locale encoding cannot decode, carriage return, line feed.
BadByte == "0xFF"
CR == "CR"
LF == "LF"

\* re.IGNORECASE: the case folding of one character
Fold(c) ==
    CASE c = "Y" -> "y"
      [] c = "T" -> "t"
      [] c = "D" -> "d"
      [] c = "L" -> "l"
      [] c = "P" -> "p"
      [] c = "X" -> "x"
      [] OTHER -> c

Pattern == <<"y", "t", "-", "d", "l", "p">>
Replacement == <<"y", "t", "-", "d", "l", "x">>

\* does r"yt-dlp" match text at position i, ignoring case
MatchesAt(text, i) ==
    /\ i + Len(Pattern) - 1 <= Len(text)
    /\ \A k \in 1..Len(Pattern) : Fold(text[i + k - 1]) = Pattern[k]

\* logic.py:40-41, re.sub(r"yt-dlp", "yt-dlx", text, flags=re.IGNORECASE):
\* leftmost non-overlapping matches, scanned left to right
RECURSIVE re_sub(_)
re_sub(text) ==
    IF text = <<>> THEN <<>>
    ELSE IF MatchesAt(text, 1)
         THEN Replacement \o re_sub(SubSeq(text, Len(Pattern) + 1, Len(text)))
         ELSE <<Head(text)>> \o re_sub(Tail(text))

\* logic.py:37, text=True: strict decoding fails on an undecodable byte
Decodable(bytes) == \A i \in 1..Len(bytes) : bytes[i] # BadByte

\* logic.py:37, text=True: universal newlines, "\r\n" and "\r" become "\n"
RECURSIVE translate_newlines(_)
translate_newlines(data) ==
    IF data = <<>> THEN <<>>
    ELSE IF Head(data) = CR
         THEN IF Len(data) >= 2 /\ data[2] = LF
              THEN <<LF>> \o translate_newlines(SubSeq(data, 3, Len(data)))
              ELSE <<LF>> \o translate_newlines(Tail(data))
         ELSE <<Head(data)>> \o translate_newlines(Tail(data))

\* the streams a probe child may write
SampleStreams ==
    { <<>>,
      <<"y", "t", "-", "d", "l", "p">>,
      <<"Y", "t", "-", "D", "L", "P", CR, LF, "x">>,
      <<"y", "t", BadByte>> }

\* ------------------------------------------------------------ exit codes
\* the except clauses with the codes of the first two exchanged
ExceptExit_swapped(exc) ==
    CASE exc = "FileNotFoundError" -> 126
      [] exc = "PermissionError" -> 127
      [] exc = "SubprocessError" -> 1
      [] OTHER -> 1

\* the except clauses with every other operating-system fault taken for not-found
ExceptExit_oserror_127(exc) ==
    CASE exc = "FileNotFoundError" -> 127
      [] exc = "PermissionError" -> 126
      [] exc = "OSError" -> 127
      [] OTHER -> 1

\* logic.py:53-64, the except clauses of run_executable
ExceptExit(exc) ==
    CASE exc = "FileNotFoundError" -> 127
      [] exc = "PermissionError" -> 126
      [] exc = "SubprocessError" -> 1
      [] OTHER -> 1

\* the shim's except clauses using the Runner's 127/126 convention
ShimExceptExit_runner_codes(exc) ==
    CASE exc = "FileNotFoundError" -> 127
      [] exc = "PermissionError" -> 126
      [] OTHER -> 1

\* main.py:28-36, the except clauses of the shim
ShimExceptExit(exc) ==
    CASE exc = "FileNotFoundError" -> 1
      [] exc = "PermissionError" -> 1
      [] OTHER -> 1

SpawnFaults == {"FileNotFoundError", "PermissionError", "SubprocessError", "OSError"}

\* Popen.returncode: the exit code, or minus the signal number
ReturnCode(status) == IF status[1] = "exit" THEN status[2] ELSE 0 - status[2]

\* logic.py:44,52 sys.exit(n): the low eight bits reach the caller
sys_exit(n) == n % 256

\* ------------------------------------------------------------ diagnostics
ErrNotInBundle == "Error: executable not found in bundle."
ErrNotFound == "Error: The executable was not found."
ErrPermission == "Error: Permission denied to execute."
ErrRunning == "Error running command"
ErrUnexpected == "An unexpected error occurred while running"
ErrTorMissing == "Error: Bundled Tor executable not found in expected location."
ErrDataMissing == "Error: Bundled Tor Data directory not found in expected location."
WarnTorrc == "Warning: Bundled torrc not found at expected location"
ErrUsage == "error: unrecognized arguments"

\* logic.py:53-64, the message each except clause prints
ExceptMessage(exc) ==
    CASE exc = "FileNotFoundError" -> ErrNotFound
      [] exc = "PermissionError" -> ErrPermission
      [] exc = "SubprocessError" -> ErrRunning
      [] OTHER -> ErrUnexpected

NotFoundInBundle == "Not found in bundle"
NotApplicable == "N/A on this platform"
SysExecutable == "sys.executable"

\* ------------------------------------------------------- initial states
\* directories a bundled path is looked up under
Bases(fz) == IF fz THEN {MeiPass} ELSE {ScriptDir, UpThree}

\* a torrc lies inside its data directory
Consistent(files, p) ==
    \A b \in {MeiPass, ScriptDir, UpThree, Cwd} :
        join(b, TorrcRel(p)) \in files => join(b, DataRel(p)) \in files

BundleFiles(p, fz) ==
    {join(b, r) : b \in Bases(fz),
              r \in {TorRel(p), DataRel(p), YtprobeRel(p), TorrcRel(p)}}

NoArgs == [tor |-> {}, ytprobe |-> {}]

\* the state of a process that has not started its work
Fresh ==
    /\ args = NoArgs
    /\ tor_path = None /\ tor_data_dir = None /\ ytprobe_path = None
    /\ venv_python = None
    /\ executable_name = "" /\ executable_path = None
    /\ command = <<>> /\ run_args = <<>>
    /\ child = "none" /\ spawned = 0 /\ child_status = <<"none", 0>>
    /\ child_stdout = <<>> /\ child_stderr = <<>>
    /\ returncode = 0 /\ result_stdout = <<>> /\ result_stderr = <<>>
    /\ parent_stdout = <<>> /\ parent_stderr = <<>>
    /\ paths_info = [x \in {} |-> None]
    /\ spawn_fault = ""
    /\ exit_code = -1
    /\ relative_bundle_path = None /\ located = None

\* logic.py is started with some arguments on some bundle
Init ==
    /\ platform \in Platforms
    /\ frozen \in BOOLEAN
    /\ fs \in {f \in SUBSET BundleFiles(platform, frozen) : Consistent(f, platform)}
    /\ argv \in ArgVectors
    /\ pc = "parse"
    /\ Fresh

\* ------------------------------------------------------------ Dispatcher
\* terminate the parent: sys.exit(code)
Exit(code) ==
    /\ pc' = "exited"
    /\ exit_code' = code

\* logic.py:67-70, argparse with two nargs=REMAINDER options
parse_args(av) ==
    IF av = <<>> THEN [ok |-> TRUE, tor |-> {}, ytprobe |-> {}]
    ELSE IF Head(av) = "--tor" THEN [ok |-> TRUE, tor |-> {Tail(av)}, ytprobe |-> {}]
    ELSE IF Head(av) = "--ytprobe" THEN [ok |-> TRUE, tor |-> {}, ytprobe |-> {Tail(av)}]
    ELSE [ok |-> FALSE, tor |-> {}, ytprobe |-> {}]

\* logic.py:70
ParseArgs ==
    /\ pc = "parse"
    /\ parse_args(argv).ok
    /\ args' = [tor |-> parse_args(argv).tor, ytprobe |-> parse_args(argv).ytprobe]
    /\ pc' = "resolve"
    /\ UNCHANGED <<envVars, pathVars, executable_name, executable_path, command,
                   run_args, childVars, resultVars, outVars, spawn_fault,
                   exit_code, locVars>>

\* logic.py:70, argparse rejects the command line and exits 2
ParseError ==
    /\ pc = "parse"
    /\ ~parse_args(argv).ok
    /\ parent_stderr' = Append(parent_stderr, ErrUsage)
    /\ Exit(2)
    /\ UNCHANGED <<envVars, args, pathVars, executable_name, executable_path,
                   command, run_args, childVars, resultVars, parent_stdout,
                   paths_info, spawn_fault, locVars>>

\* logic.py:72-79
ResolvePaths ==
    /\ pc = "resolve"
    /\ tor_path' = find_bundled_file(TorRel(platform))
    /\ tor_data_dir' = find_bundled_file(DataRel(platform))
    /\ ytprobe_path' = find_bundled_file(YtprobeRel(platform))
    /\ pc' = "dispatch"
    /\ UNCHANGED <<envVars, args, venv_python, executable_name, executable_path,
                   command, run_args, childVars, resultVars, outVars,
                   spawn_fault, exit_code, locVars>>

\* logic.py:82-84
TorExecutableMissing ==
    /\ pc = "dispatch"
    /\ args.tor # {}
    /\ tor_path = None
    /\ parent_stderr' = Append(parent_stderr, ErrTorMissing)
    /\ Exit(1)
    /\ UNCHANGED <<envVars, args, pathVars, executable_name, executable_path,
                   command, run_args, childVars, resultVars, parent_stdout,
                   paths_info, spawn_fault, locVars>>

\* the data-directory check left out: nothing stops the dispatch
TorDataDirMissing_unchecked ==
    /\ pc = "dispatch"
    /\ args.tor # {}
    /\ tor_path # None
    /\ tor_data_dir = None
    /\ parent_stderr' = Append(parent_stderr, WarnTorrc)
    /\ executable_name' = "tor"
    /\ executable_path' = tor_path
    /\ run_args' = <<"--DataDirectory", tor_data_dir>> \o (CHOOSE a \in args.tor : TRUE)
    /\ pc' = "run"
    /\ UNCHANGED <<envVars, args, pathVars, command, childVars, resultVars,
                   parent_stdout, paths_info, spawn_fault, exit_code, locVars>>

\* logic.py:85-87
TorDataDirMissing ==
    /\ pc = "dispatch"
    /\ args.tor # {}
    /\ tor_path # None
    /\ tor_data_dir = None
    /\ parent_stderr' = Append(parent_stderr, ErrDataMissing)
    /\ Exit(1)
    /\ UNCHANGED <<envVars, args, pathVars, executable_name, executable_path,
                   command, run_args, childVars, resultVars, parent_stdout,
                   paths_info, spawn_fault, locVars>>

\* the argument vector with --config-file passed whether or not torrc exists
tor_subprocess_args_always_config(data_dir, forwarded) ==
    <<"--DataDirectory", data_dir>>
    \o <<"--config-file", join(data_dir, "torrc")>>
    \o forwarded

\* logic.py:88-96, the argument vector built for Tor
tor_subprocess_args(data_dir, forwarded) ==
    LET bundled_torrc_full_path == join(data_dir, "torrc")
    IN <<"--DataDirectory", data_dir>>
       \o (IF exists(bundled_torrc_full_path)
           THEN <<"--config-file", bundled_torrc_full_path>>
           ELSE <<>>)
       \o forwarded

\* logic.py:88-97
DispatchTor ==
    /\ pc = "dispatch"
    /\ args.tor # {}
    /\ tor_path # None
    /\ tor_data_dir # None
    /\ parent_stderr' =
         IF exists(join(tor_data_dir, "torrc")) THEN parent_stderr
         ELSE Append(parent_stderr, WarnTorrc)
    /\ executable_name' = "tor"
    /\ executable_path' = tor_path
    /\ run_args' = tor_subprocess_args(tor_data_dir, CHOOSE a \in args.tor : TRUE)
    /\ pc' = "run"
    /\ UNCHANGED <<envVars, args, pathVars, command, childVars, resultVars,
                   parent_stdout, paths_info, spawn_fault, exit_code, locVars>>

\* logic.py:98-99
DispatchYtprobe ==
    /\ pc = "dispatch"
    /\ args.tor = {}
    /\ args.ytprobe # {}
    /\ executable_name' = "ytprobe"
    /\ executable_path' = ytprobe_path
    /\ run_args' = (CHOOSE a \in args.ytprobe : TRUE)
    /\ pc' = "run"
    /\ UNCHANGED <<envVars, args, pathVars, command, childVars, resultVars,
                   outVars, spawn_fault, exit_code, locVars>>

\* logic.py:101-108
report ==
    [tor_executable |-> IF tor_path # None THEN tor_path ELSE NotFoundInBundle,
     tor_data_directory |-> IF tor_data_dir # None THEN tor_data_dir ELSE NotFoundInBundle,
     ytprobe |-> IF ytprobe_path # None THEN ytprobe_path ELSE NotFoundInBundle,
     bundled_torrc_win |-> IF platform = "win32" THEN find_bundled_file(TorrcRelWin)
                           ELSE NotApplicable,
     bundled_torrc_linux |-> IF platform # "win32" THEN find_bundled_file(TorrcRelLinux)
                             ELSE NotApplicable,
     python |-> SysExecutable]

\* logic.py:100-109, main() returns and the interpreter exits 0
Report ==
    /\ pc = "dispatch"
    /\ args.tor = {}
    /\ args.ytprobe = {}
    /\ paths_info' = report
    /\ parent_stdout' = Append(parent_stdout, "json.dumps(paths_info)")
    /\ Exit(0)
    /\ UNCHANGED <<envVars, args, pathVars, executable_name, executable_path,
                   command, run_args, childVars, resultVars, parent_stderr,
                   spawn_fault, locVars>>

\* ---------------------------------------------------------- run_executable
is_ytprobe == executable_name = "ytprobe"

\* logic.py:27-29
RunAbsent ==
    /\ pc = "run"
    /\ executable_path = None
    /\ parent_stderr' = Append(parent_stderr, ErrNotInBundle)
    /\ Exit(1)
    /\ UNCHANGED <<envVars, args, pathVars, executable_name, executable_path,
                   command, run_args, childVars, resultVars, parent_stdout,
                   paths_info, spawn_fault, locVars>>

\* logic.py:30-39,46-51, subprocess.run creates the child process
SpawnOk ==
    /\ pc = "run"
    /\ executable_path # None
    /\ command' = <<executable_path>> \o run_args
    /\ child' = "running"
    /\ spawned' = spawned + 1
    /\ pc' = "wait"
    /\ UNCHANGED <<envVars, args, pathVars, executable_name, executable_path,
                   run_args, child_status, child_stdout, child_stderr,
                   resultVars, outVars, spawn_fault, exit_code, locVars>>

\* logic.py:30-39,46-51,53-64, subprocess.run fails to create the child
SpawnFail ==
    /\ pc = "run"
    /\ executable_path # None
    /\ \E exc \in SpawnFaults :
         /\ spawn_fault' = exc
         /\ parent_stderr' = Append(parent_stderr, ExceptMessage(exc))
         /\ Exit(ExceptExit(exc))
    /\ command' = <<executable_path>> \o run_args
    /\ UNCHANGED <<envVars, args, pathVars, executable_name, executable_path,
                   run_args, childVars, resultVars, parent_stdout, paths_info,
                   locVars>>

\* the child ends by itself; a probe child has written its pipes by then
ChildExit ==
    /\ child = "running"
    /\ \E code \in ExitCodes : child_status' = <<"exit", code>>
    /\ IF is_ytprobe
       THEN /\ child_stdout' \in SampleStreams
            /\ child_stderr' \in SampleStreams
       ELSE UNCHANGED <<child_stdout, child_stderr>>
    /\ child' = "exited"
    /\ UNCHANGED <<envVars, pc, args, pathVars, executable_name, executable_path,
                   command, run_args, spawned, resultVars, outVars, spawn_fault,
                   exit_code, locVars>>

\* the child is killed by a signal
ChildKilled ==
    /\ child = "running"
    /\ \E sig \in Signals : child_status' = <<"signal", sig>>
    /\ IF is_ytprobe
       THEN /\ child_stdout' \in SampleStreams
            /\ child_stderr' \in SampleStreams
       ELSE UNCHANGED <<child_stdout, child_stderr>>
    /\ child' = "exited"
    /\ UNCHANGED <<envVars, pc, args, pathVars, executable_name, executable_path,
                   command, run_args, spawned, resultVars, outVars, spawn_fault,
                   exit_code, locVars>>

\* the parent goes on without waiting for the child to end
WaitPassthrough_no_wait ==
    /\ pc = "wait"
    /\ ~is_ytprobe
    /\ child \in {"running", "exited"}
    /\ returncode' = 0
    /\ pc' = "sysexit"
    /\ UNCHANGED <<envVars, args, pathVars, executable_name, executable_path,
                   command, run_args, childVars, result_stdout, result_stderr,
                   outVars, spawn_fault, exit_code, locVars>>

\* logic.py:46-51, subprocess.run waits for the child and returns
WaitPassthrough ==
    /\ pc = "wait"
    /\ ~is_ytprobe
    /\ child = "exited"
    /\ child' = "reaped"
    /\ returncode' = ReturnCode(child_status)
    /\ pc' = "sysexit"
    /\ UNCHANGED <<envVars, args, pathVars, executable_name, executable_path,
                   command, run_args, spawned, child_status, child_stdout,
                   child_stderr, result_stdout, result_stderr, outVars,
                   spawn_fault, exit_code, locVars>>

\* logic.py:34-39, subprocess.run waits for the child and decodes its output
WaitCapture ==
    /\ pc = "wait"
    /\ is_ytprobe
    /\ child = "exited"
    /\ Decodable(child_stdout) /\ Decodable(child_stderr)
    /\ child' = "reaped"
    /\ returncode' = ReturnCode(child_status)
    /\ result_stdout' = translate_newlines(child_stdout)
    /\ result_stderr' = translate_newlines(child_stderr)
    /\ pc' = "relay"
    /\ UNCHANGED <<envVars, args, pathVars, executable_name, executable_path,
                   command, run_args, spawned, child_status, child_stdout,
                   child_stderr, outVars, spawn_fault, exit_code, locVars>>

\* logic.py:34-39,62-64, decoding the captured output raises UnicodeDecodeError
CaptureDecodeError ==
    /\ pc = "wait"
    /\ is_ytprobe
    /\ child = "exited"
    /\ ~(Decodable(child_stdout) /\ Decodable(child_stderr))
    /\ child' = "reaped"
    /\ parent_stderr' = Append(parent_stderr, ExceptMessage("UnicodeDecodeError"))
    /\ Exit(ExceptExit("UnicodeDecodeError"))
    /\ UNCHANGED <<envVars, args, pathVars, executable_name, executable_path,
                   command, run_args, spawned, child_status, child_stdout,
                   child_stderr, resultVars, parent_stdout, paths_info,
                   spawn_fault, locVars>>

\* logic.py:40-43
RelayTransform ==
    /\ pc = "relay"
    /\ LET modified_stdout == re_sub(result_stdout)
           modified_stderr == re_sub(result_stderr)
       IN /\ parent_stdout' = parent_stdout \o modified_stdout
          /\ parent_stderr' = parent_stderr \o modified_stderr
    /\ pc' = "sysexit"
    /\ UNCHANGED <<envVars, args, pathVars, executable_name, executable_path,
                   command, run_args, childVars, resultVars, paths_info,
                   spawn_fault, exit_code, locVars>>

\* logic.py:44,52
SysExit ==
    /\ pc = "sysexit"
    /\ Exit(sys_exit(returncode))
    /\ UNCHANGED <<envVars, args, pathVars, executable_name, executable_path,
                   command, run_args, childVars, resultVars, outVars,
                   spawn_fault, locVars>>

Next ==
    \/ ParseArgs
    \/ ParseError
    \/ ResolvePaths
    \/ TorExecutableMissing
    \/ TorDataDirMissing
    \/ DispatchTor
    \/ DispatchYtprobe
    \/ Report
    \/ RunAbsent
    \/ SpawnOk
    \/ SpawnFail
    \/ ChildExit
    \/ ChildKilled
    \/ WaitPassthrough
    \/ WaitCapture
    \/ CaptureDecodeError
    \/ RelayTransform
    \/ SysExit

Spec == Init /\ [][Next]_vars

\* ----------------------------------------------------------- Launch Shim
ErrVenvMissing == "Error: Venv Python interpreter not found in the bundled environment."
ErrScriptMissing == "Error: Application logic script not found in the bundled environment."
ErrShimNotFound == "Error: The bundled Python executable was not found"
ErrShimPermission == "Error: Permission denied to execute the bundled Python executable"
ErrShimUnexpected == "An unexpected error occurred while launching logic.py"

\* main.py:28-36, the message each except clause prints
ShimExceptMessage(exc) ==
    CASE exc = "FileNotFoundError" -> ErrShimNotFound
      [] exc = "PermissionError" -> ErrShimPermission
      [] OTHER -> ErrShimUnexpected

ShimFiles(p, fz) ==
    LET base == IF fz THEN MeiPass ELSE ScriptDir
    IN {join(base, IF p = "win32" THEN "context/windows/venv/python.exe"
                   ELSE "context/linux/venv/bin/python"),
        join(base, "logic.py")}

\* main.py is started with some arguments on some bundle
ShimInit ==
    /\ platform \in Platforms
    /\ frozen \in BOOLEAN
    /\ fs \in SUBSET ShimFiles(platform, frozen)
    /\ argv \in ArgVectors
    /\ pc = "shim_start"
    /\ Fresh

\* main.py:20
ShimFindVenv ==
    /\ pc = "shim_start"
    /\ venv_python' = find_venv_python
    /\ pc' = "shim_check"
    /\ UNCHANGED <<envVars, args, tor_path, tor_data_dir, ytprobe_path,
                   executable_name, executable_path, command, run_args,
                   childVars, resultVars, outVars, spawn_fault, exit_code,
                   locVars>>

\* main.py:23
shim_can_launch == venv_python # None /\ exists(app_script_path)

\* main.py:37-43
ShimMissing ==
    /\ pc = "shim_check"
    /\ ~shim_can_launch
    /\ parent_stderr' =
         parent_stderr
         \o (IF venv_python = None THEN <<ErrVenvMissing>> ELSE <<>>)
         \o (IF ~exists(app_script_path) THEN <<ErrScriptMissing>> ELSE <<>>)
    /\ Exit(1)
    /\ UNCHANGED <<envVars, args, pathVars, executable_name, executable_path,
                   command, run_args, childVars, resultVars, parent_stdout,
                   paths_info, spawn_fault, locVars>>

\* main.py:24-26, subprocess.run creates the Dispatcher process
ShimSpawnOk ==
    /\ pc = "shim_check"
    /\ shim_can_launch
    /\ command' = <<venv_python, app_script_path>> \o argv
    /\ child' = "running"
    /\ spawned' = spawned + 1
    /\ pc' = "shim_wait"
    /\ UNCHANGED <<envVars, args, pathVars, executable_name, executable_path,
                   run_args, child_status, child_stdout, child_stderr,
                   resultVars, outVars, spawn_fault, exit_code, locVars>>

\* main.py:24-26,28-36, subprocess.run fails to create the Dispatcher process
ShimSpawnFail ==
    /\ pc = "shim_check"
    /\ shim_can_launch
    /\ \E exc \in SpawnFaults :
         /\ spawn_fault' = exc
         /\ parent_stderr' = Append(parent_stderr, ShimExceptMessage(exc))
         /\ Exit(ShimExceptExit(exc))
    /\ command' = <<venv_python, app_script_path>> \o argv
    /\ UNCHANGED <<envVars, args, pathVars, executable_name, executable_path,
                   run_args, childVars, resultVars, parent_stdout, paths_info,
                   locVars>>

\* main.py:26, subprocess.run waits for the Dispatcher and returns
ShimWait ==
    /\ pc = "shim_wait"
    /\ child = "exited"
    /\ child' = "reaped"
    /\ returncode' = ReturnCode(child_status)
    /\ pc' = "shim_exit"
    /\ UNCHANGED <<envVars, args, pathVars, executable_name, executable_path,
                   command, run_args, spawned, child_status, child_stdout,
                   child_stderr, result_stdout, result_stderr, outVars,
                   spawn_fault, exit_code, locVars>>

\* main.py:27
ShimExit ==
    /\ pc = "shim_exit"
    /\ Exit(sys_exit(returncode))
    /\ UNCHANGED <<envVars, args, pathVars, executable_name, executable_path,
                   command, run_args, childVars, resultVars, outVars,
                   spawn_fault, locVars>>

ShimNext ==
    \/ ShimFindVenv
    \/ ShimMissing
    \/ ShimSpawnOk
    \/ ShimSpawnFail
    \/ ChildExit
    \/ ChildKilled
    \/ ShimWait
    \/ ShimExit

ShimSpec == ShimInit /\ [][ShimNext]_vars

\* -------------------------------------------------------- Bundle Locator
LocatorRels(p) == {TorRel(p), YtprobeRel(p)}

LocatorFiles(p) ==
    {join(b, r) : b \in {MeiPass, ScriptDir, UpThree, Cwd}, r \in LocatorRels(p)}

\* find_bundled_file is about to be called on some filesystem
LocatorInit ==
    /\ platform \in Platforms
    /\ frozen \in BOOLEAN
    /\ fs \in SUBSET LocatorFiles(platform)
    /\ argv = <<>>
    /\ pc = "locate"
    /\ Fresh

\* logic.py:9-24, one call of find_bundled_file
Locate ==
    /\ pc = "locate"
    /\ \E rel \in LocatorRels(platform) :
         /\ relative_bundle_path' = rel
         /\ located' = find_bundled_file(rel)
    /\ pc' = "located"
    /\ UNCHANGED <<envVars, args, pathVars, executable_name, executable_path,
                   command, run_args, childVars, resultVars, outVars,
                   spawn_fault, exit_code>>

LocatorNext == Locate

LocatorSpec == LocatorInit /\ [][LocatorNext]_vars

\* ================================================================ claims
Exited == pc = "exited"
Launched == spawned > 0
ChildCode == child_status[2]
ChildExitedWith(code) == child_status = <<"exit", code>>

\* a case-insensitive occurrence of the token yt-dlp in text
HasBrand(text) == \E i \in 1..Len(text) : MatchesAt(text, i)

\* C1: whenever the child was launched and ended with an exit code, the
\* Dispatcher's exit code equals that code, on the passthrough path and on the
\* relay-transform path alike.
C1_ExitCodePropagated ==
    (Exited /\ Launched /\ child_status[1] = "exit") => exit_code = ChildCode

C3_SpawnFailureCodes ==
    /\ spawn_fault # "" =>
         /\ Exited /\ ~Launched /\ child = "none"
         /\ exit_code # 0
         /\ spawn_fault = "FileNotFoundError" => exit_code = 127
         /\ spawn_fault = "PermissionError" => exit_code = 126
         /\ spawn_fault \notin {"FileNotFoundError", "PermissionError"} => exit_code = 1
    /\ (executable_name # "" /\ executable_path = None /\ pc # "run") =>
         /\ Exited /\ exit_code = 1
         /\ ~Launched /\ command = <<>> /\ spawn_fault = ""

C3_Witness ==
    /\ spawn_fault = "PermissionError"
    /\ exit_code = 126
    /\ command # <<>>

\* C4: given --tor, when the Tor executable or the Tor data directory is not
\* located, the Dispatcher exits 1, the Runner is never reached and no child
\* is spawned, whatever the forwarded arguments and the other bundle files.
C4_TorFailFast ==
    ( /\ pc \notin {"parse", "resolve", "dispatch"}
      /\ argv # <<>> /\ Head(argv) = "--tor"
      /\ (tor_path = None \/ tor_data_dir = None) )
    => /\ Exited /\ exit_code = 1
       /\ ~Launched /\ child = "none"
       /\ executable_name = "" /\ command = <<>>

C4_Witness ==
    /\ Exited
    /\ argv # <<>> /\ Head(argv) = "--tor" /\ Len(argv) = 2
    /\ tor_path # None /\ tor_data_dir = None
    /\ ytprobe_path # None
    /\ exit_code = 1

\* C5: the report holds the six entries; every resource entry is a path that
\* exists or exactly "Not found in bundle", the torrc entry of the other
\* platform is "N/A on this platform", and a missing torrc of the current
\* platform reads "Not found in bundle".
C5_ReportMarkers ==
    (Exited /\ DOMAIN paths_info # {}) =>
        LET own == IF platform = "win32" THEN paths_info.bundled_torrc_win
                   ELSE paths_info.bundled_torrc_linux
            other == IF platform = "win32" THEN paths_info.bundled_torrc_linux
                     ELSE paths_info.bundled_torrc_win
        IN /\ DOMAIN paths_info = {"tor_executable", "tor_data_directory", "ytprobe",
                                   "bundled_torrc_win", "bundled_torrc_linux", "python"}
           /\ \A k \in {"tor_executable", "tor_data_directory", "ytprobe"} :
                 paths_info[k] \in fs \/ paths_info[k] = NotFoundInBundle
           /\ own \in fs \/ own = NotFoundInBundle
           /\ other = NotApplicable
           /\ paths_info.python = SysExecutable

\* the report without the torrc entry of the current platform
C5_OtherEntries ==
    (Exited /\ DOMAIN paths_info # {}) =>
        /\ DOMAIN paths_info = {"tor_executable", "tor_data_directory", "ytprobe",
                                "bundled_torrc_win", "bundled_torrc_linux", "python"}
        /\ \A k \in {"tor_executable", "tor_data_directory", "ytprobe"} :
              paths_info[k] \in fs \/ paths_info[k] = NotFoundInBundle
        /\ (IF platform = "win32" THEN paths_info.bundled_torrc_linux
            ELSE paths_info.bundled_torrc_win) = NotApplicable
        /\ ~Launched /\ exit_code = 0

\* C6: given --ytprobe with the probe launched, the parent's stdout is the
\* child's stdout with every case-insensitive yt-dlp replaced by yt-dlx and
\* nothing else changed, its stderr is the child's stderr transformed the same
\* way, and no case-insensitive yt-dlp remains in either.
C6_RelayExact ==
    (Exited /\ is_ytprobe /\ Launched) =>
        /\ parent_stdout = re_sub(child_stdout)
        /\ parent_stderr = re_sub(child_stderr)
        /\ ~HasBrand(parent_stdout)
        /\ ~HasBrand(parent_stderr)

\* what the relay does once the output has been decoded: each stream is the
\* decoded text of the same stream of the child, substituted, and free of the token
C6_RelayOfDecodedText ==
    (pc \in {"sysexit", "exited"} /\ is_ytprobe /\ Launched /\ spawn_fault = ""
       /\ Decodable(child_stdout) /\ Decodable(child_stderr)) =>
        /\ parent_stdout = re_sub(translate_newlines(child_stdout))
        /\ parent_stderr = re_sub(translate_newlines(child_stderr))
        /\ ~HasBrand(parent_stdout)
        /\ ~HasBrand(parent_stderr)

\* the claim of C6 on output that is text: violated by carriage returns alone
C6_RelayExactOnText ==
    (Exited /\ is_ytprobe /\ Launched
       /\ Decodable(child_stdout) /\ Decodable(child_stderr)) =>
        /\ parent_stdout = re_sub(child_stdout)
        /\ parent_stderr = re_sub(child_stderr)

\* the result of the call is a path that exists or Absent
LocatedExistsOrAbsent == located = None \/ located \in fs

\* C7 as stated: the result exists or is Absent; bundled, the only candidate
\* is the path under the extraction root; unbundled, the first candidate is
\* the path under the current working directory and the one three levels up
\* is returned only when the first does not exist; Absent exactly when no
\* candidate exists.
C7_CwdFirst ==
    pc = "located" =>
        LET rel == relative_bundle_path
            first == join(Cwd, rel)
            alt == join(UpThree, rel)
        IN /\ LocatedExistsOrAbsent
           /\ frozen => located = (IF join(MeiPass, rel) \in fs
                                   THEN join(MeiPass, rel) ELSE None)
           /\ ~frozen =>
                /\ first \in fs => located = first
                /\ (first \notin fs /\ alt \in fs) => located = alt
                /\ (first \notin fs /\ alt \notin fs) => located = None

\* C7 amended: as C7, with the first unbundled candidate under the directory
\* of the Dispatcher script (not the working directory), and the fallback three
\* levels above that directory.
C7_ScriptDirFirst ==
    pc = "located" =>
        LET rel == relative_bundle_path
            first == join(ScriptDir, rel)
            alt == join(UpThree, rel)
        IN /\ LocatedExistsOrAbsent
           /\ frozen => located = (IF join(MeiPass, rel) \in fs
                                   THEN join(MeiPass, rel) ELSE None)
           /\ ~frozen =>
                /\ first \in fs => located = first
                /\ (first \notin fs /\ alt \in fs) => located = alt
                /\ (first \notin fs /\ alt \notin fs) => located = None

C7_Witness ==
    /\ pc = "located"
    /\ ~frozen
    /\ join(ScriptDir, relative_bundle_path) \notin fs
    /\ join(Cwd, relative_bundle_path) \in fs
    /\ join(MeiPass, relative_bundle_path) \in fs
    /\ located = join(UpThree, relative_bundle_path)

\* C8: the shim exits 1 without spawning when the interpreter or the
\* Dispatcher script is absent, exits 1 when the spawn faults, and otherwise
\* passes argv unchanged to the interpreter running the Dispatcher and exits
\* with that child's exit code; it exits 127 or 126 only when the Dispatcher
\* process exited with that code.
C8_ShimExitCode ==
    Exited =>
        LET venv == join(IF frozen THEN MeiPass ELSE ScriptDir,
                         IF platform = "win32" THEN "context/windows/venv/python.exe"
                         ELSE "context/linux/venv/bin/python")
            script == join(IF frozen THEN MeiPass ELSE ScriptDir, "logic.py")
        IN /\ (venv \notin fs \/ script \notin fs) =>
                (exit_code = 1 /\ ~Launched /\ command = <<>> /\ spawn_fault = "")
           /\ spawn_fault # "" => (exit_code = 1 /\ ~Launched)
           /\ (venv \in fs /\ script \in fs /\ spawn_fault = "") =>
                /\ spawned = 1
                /\ command = <<venv, script>> \o argv
                /\ child_status[1] = "exit" => exit_code = ChildCode
           /\ exit_code \in {126, 127} => (Launched /\ ChildExitedWith(exit_code))

C8_Witness ==
    /\ Exited
    /\ Launched
    /\ Len(command) = 2 + MaxArgs
    /\ ChildExitedWith(127)
    /\ exit_code = 127

\* C9 as stated: 127 and 126 are reserved for launcher-side failures; a
\* Dispatcher that exits with 127 or 126 launched no child.
C9_Reserved ==
    (Exited /\ exit_code \in {126, 127}) => ~Launched

\* C9 amended: a Dispatcher that exits with 127 or 126 either launched no
\* child and its spawn failed with not-found or permission-denied
\* respectively, or launched a child that itself exited with that same code.
C9_LauncherOrChildCode ==
    (Exited /\ exit_code \in {126, 127}) =>
        \/ /\ ~Launched
           /\ spawn_fault = (IF exit_code = 127 THEN "FileNotFoundError"
                             ELSE "PermissionError")
        \/ /\ Launched
           /\ spawn_fault = ""
           /\ ChildExitedWith(exit_code)

C9_Witness ==
    /\ Exited
    /\ Launched
    /\ ChildExitedWith(126)
    /\ exit_code = 126

====
